---- MODULE Spec2Model ----
(***************************************************************************)
(* A model of tables.table.Table: the column store (lists of lists of      *)
(* cell text, held by reference as in Python), the optional label list,    *)
(* the rendering configuration, the rebuild flag and the cached text.      *)
(* List objects live in `heap`; a table holds the addresses of its column  *)
(* lists and of its label list, so that two tables can share a list the    *)
(* way two Python objects do.                                              *)
(***************************************************************************)
EXTENDS Integers, Sequences, FiniteSets, TLC

VARIABLES heap, tables

vars == <<heap, tables>>

(* ------------------------------ bounds --------------------------------- *)
MaxCols == 2
MaxRows == 1
MaxPadding == 1

(* ------------------------------ values --------------------------------- *)
\* A Python value handed to the table: a str (a sequence of characters), an
\* int, or None.  One record shape for all three keeps them comparable.
StrV(s) == [kind |-> "str", n |-> 0, s |-> s]
IntV(i) == [kind |-> "int", n |-> i, s |-> <<>>]
None == [kind |-> "None", n |-> 0, s |-> <<>>]
Ellipsis == [kind |-> "Ellipsis", n |-> 0, s |-> <<>>]

Whitespace == {" ", "\t", "\n"}

Digit(d) == <<"0", "1", "2", "3", "4", "5", "6", "7", "8", "9">>[d + 1]

RECURSIVE Decimal(_)
Decimal(i) ==
    IF i < 0 THEN <<"-">> \o Decimal(0 - i)
    ELSE IF i < 10 THEN <<Digit(i)>>
    ELSE Decimal(i \div 10) \o <<Digit(i % 10)>>

\* str(v)
PyStr(v) ==
    CASE v.kind = "str" -> v.s
      [] v.kind = "int" -> Decimal(v.n)
      [] v.kind = "None" -> <<"N", "o", "n", "e">>
      [] OTHER -> <<"E", "l", "l", "i", "p", "s", "i", "s">>

RECURSIVE LStrip(_)
LStrip(s) == IF s # <<>> /\ Head(s) \in Whitespace THEN LStrip(Tail(s)) ELSE s

RECURSIVE RStrip(_)
RStrip(s) ==
    IF s # <<>> /\ s[Len(s)] \in Whitespace THEN RStrip(SubSeq(s, 1, Len(s) - 1)) ELSE s

\* str.strip()
Strip(s) == RStrip(LStrip(s))

\* str(item).strip(), kept as a str value
Normalize(v) == StrV(Strip(PyStr(v)))

\* utils.stringify: [str(item).strip() for item in iterable]
stringify(items) == [i \in 1..Len(items) |-> Normalize(items[i])]

\* utils.strict_zip raises unless all the sequences have one length
strict_zip_ok(seqs) == \A i, j \in 1..Len(seqs) : Len(seqs[i]) = Len(seqs[j])

(* --------------------------- Python lists ------------------------------ *)
\* list.insert(i, x): the index is clamped, never an error
PyInsert(s, i, x) ==
    LET n == Len(s)
        k == IF i < 0 THEN (IF n + i < 0 THEN 0 ELSE n + i) ELSE (IF i > n THEN n ELSE i)
    IN  SubSeq(s, 1, k) \o <<x>> \o SubSeq(s, k + 1, n)

\* whether s[i] exists (negative indices count from the end)
PyInRange(s, i) == 0 - Len(s) <= i /\ i < Len(s)

\* the 1-based position of s[i]
PyPos(s, i) == IF i < 0 THEN Len(s) + i + 1 ELSE i + 1

PyGet(s, i) == s[PyPos(s, i)]

\* list.pop(i), for an index in range
PyPop(s, i) == SubSeq(s, 1, PyPos(s, i) - 1) \o SubSeq(s, PyPos(s, i) + 1, Len(s))

\* a search that returns the last position holding x instead of the first:
\* the lookup C9 must tell apart from list.index
PyIndexLast(s, x) ==
    IF \E i \in 1..Len(s) : s[i] = x
    THEN (CHOOSE i \in 1..Len(s) : s[i] = x /\ \A j \in (i + 1)..Len(s) : s[j] # x) - 1
    ELSE 0 - 1

\* list.index(x): the first position (0-based) holding x, -1 for ValueError
PyIndex(s, x) ==
    IF \E i \in 1..Len(s) : s[i] = x
    THEN (CHOOSE i \in 1..Len(s) : s[i] = x /\ \A j \in 1..(i - 1) : s[j] # x) - 1
    ELSE 0 - 1

RECURSIVE Join(_, _)
\* sep.join(parts), on sequences of characters
Join(parts, sep) ==
    IF parts = <<>> THEN <<>>
    ELSE IF Len(parts) = 1 THEN parts[1]
    ELSE parts[1] \o sep \o Join(Tail(parts), sep)

Repeat(c, k) == [i \in 1..k |-> c]

(* ------------------------------ tables --------------------------------- *)
\* A label reference of 0 is labels = None.
NoneRef == 0

Src == 1
Der == 2
TableIds == {Src, Der}

\* Table.STYLES: v, h, tl, tm, tr, ml, x, mr, bl, bm, br.  A box-drawing
\* character is written by its code point.
STYLES ==
    ("light" :> <<"u2502", "u2500", "u250C", "u252C", "u2510", "u251C", "u253C", "u2524", "u2514", "u2534", "u2518">>)
    @@ ("heavy" :> <<"u2503", "u2501", "u250F", "u2533", "u2513", "u2523", "u254B", "u252B", "u2517", "u253B", "u251B">>)
    @@ ("curved" :> <<"u2502", "u2500", "u256D", "u252C", "u256E", "u251C", "u253C", "u2524", "u2570", "u2534", "u256F">>)
    @@ ("ascii" :> <<"|", "-", "+", "+", "+", "+", "+", "+", "+", "+", "+">>)
    @@ ("double" :> <<"u2551", "u2550", "u2554", "u2566", "u2557", "u2560", "u256C", "u2563", "u255A", "u2569", "u255D">>)
    @@ ("double-vertical" :> <<"u2551", "u2500", "u2553", "u2565", "u2556", "u255F", "u256B", "u2562", "u2559", "u2568", "u255C">>)
    @@ ("double-horizontal" :> <<"u2502", "u2550", "u2552", "u2564", "u2555", "u255E", "u256A", "u2561", "u2558", "u2567", "u255B">>)

\* the fields of a Table object (__slots__); as_string may be unset
NoString == [set |-> FALSE, text |-> <<>>]
SomeString(t) == [set |-> TRUE, text |-> t]

NoTable ==
    [live |-> FALSE, columns |-> <<>>, labels |-> NoneRef, centered |-> FALSE,
     padding |-> 0, style |-> "", needs_rebuild |-> FALSE, as_string |-> NoString]

\* the label list of a table, <<>> for None
LabelsOf(h, T) == IF T.labels = NoneRef THEN <<>> ELSE h[T.labels]

\* Python's truth value of self.labels: neither None nor empty
LabelsTruthy(h, T) == T.labels # NoneRef /\ h[T.labels] # <<>>

\* the cells of a table, column by column
ColumnsOf(h, T) == [i \in 1..Len(T.columns) |-> h[T.columns[i]]]

\* a new list object at the end of the heap
Alloc(h, items) == [h |-> Append(h, items), addr |-> Len(h) + 1]

\* one new list object per element of lists
AllocAll(h, lists) == [h |-> h \o lists, addrs |-> [i \in 1..Len(lists) |-> Len(h) + i]]

Ok(h, T) == [h |-> h, T |-> T, err |-> "none"]
Raise(h, T, e) == [h |-> h, T |-> T, err |-> e]

(* --------------------------- attribute writes -------------------------- *)
\* an attribute write that does not track the style: assigning it leaves
\* _needs_rebuild as it was (the write C2 must tell apart from __setattr__)
SetAttrUntrackedStyle(T, attr, value) ==
    LET T1 == [T EXCEPT ![attr] = value]
    IN  IF attr \notin {"needs_rebuild", "style"}
        THEN [T1 EXCEPT !.needs_rebuild = (attr # "as_string")]
        ELSE T1

\* an attribute write that sets _needs_rebuild for every attribute, the
\* stored text included (the write C3 must tell apart from __setattr__)
SetAttrAlwaysDirty(T, attr, value) ==
    LET T1 == [T EXCEPT ![attr] = value]
    IN  IF attr # "needs_rebuild"
        THEN [T1 EXCEPT !.needs_rebuild = TRUE]
        ELSE T1

\* Table.__setattr__: store the value; any attribute but _needs_rebuild
\* then sets _needs_rebuild, to False only for _as_string.
SetAttr(T, attr, value) ==
    LET T1 == [T EXCEPT ![attr] = value]
    IN  IF attr # "needs_rebuild"
        THEN [T1 EXCEPT !.needs_rebuild = (attr # "as_string")]
        ELSE T1

\* the labels setter; new_labels is [given, items], given = FALSE for None
SetLabels(h, T, new_labels) ==
    IF new_labels.given
    THEN LET nl == stringify(new_labels.items)
         IN  IF Len(nl) # Len(T.columns)
             THEN Raise(h, T, "ValueError: labels inconsistent with number of columns")
             ELSE LET a == Alloc(h, nl)
                  IN  Ok(a.h, SetAttr(SetAttr(T, "labels", a.addr), "labels", a.addr))
    ELSE Ok(h, SetAttr(SetAttr(T, "labels", NoneRef), "labels", NoneRef))

NoLabelsArg == [given |-> FALSE, items |-> <<>>]
LabelsArg(items) == [given |-> TRUE, items |-> items]

\* zip(*rows): the columns of a sequence of equal-length rows
Transpose(rows) ==
    IF rows = <<>> THEN <<>>
    ELSE [c \in 1..Len(rows[1]) |-> [r \in 1..Len(rows) |-> rows[r][c]]]

\* Table.__init__
Construct(h, rows, labels, centered, padding, style) ==
    IF ~strict_zip_ok(rows)
    THEN Raise(h, NoTable, "ValueError: strict_zip")
    ELSE LET cols == Transpose(rows)
             a == AllocAll(h, [c \in 1..Len(cols) |-> stringify(cols[c])])
             T1 == SetAttr([NoTable EXCEPT !.live = TRUE], "columns", a.addrs)
             r == SetLabels(a.h, T1, labels)
         IN  IF r.err # "none" THEN Raise(h, NoTable, r.err)
             ELSE Ok(r.h, SetAttr(SetAttr(SetAttr(r.T, "centered", centered),
                                          "padding", padding), "style", style))

(* ----------------------------- layout ---------------------------------- *)
\* f'{item:^{width}}' or f'{item:<{width}}'
\* a format that leaves the item as it is, whatever the width (the
\* padding C18 must tell apart from the format of line 76)
PadNothing(item, width, centered) == item

Pad(item, width, centered) ==
    LET total == IF width > Len(item) THEN width - Len(item) ELSE 0
        left == IF centered THEN total \div 2 ELSE 0
    IN  Repeat(" ", left) \o item \o Repeat(" ", total - left)

MaxOf(S) == CHOOSE m \in S : \A x \in S : x <= m

\* Table._build_table: [err, text]; text is the new _as_string
BuildTable(h, T) ==
    IF T.columns = <<>> THEN [err |-> "none", text |-> <<>>]
    ELSE
    LET withLabels == LabelsTruthy(h, T)
        cols == ColumnsOf(h, T)
    IN
    IF withLabels /\ Len(h[T.labels]) # Len(cols)
    THEN [err |-> "ValueError: strict_zip", text |-> <<>>]
    ELSE
    LET table == [c \in 1..Len(cols) |->
                    IF withLabels THEN <<h[T.labels][c]>> \o cols[c] ELSE cols[c]]
        \* max(map(len, column)) raises on the first item that has no len,
        \* or at the end of an empty column
        colErr(c) ==
            IF \E i \in 1..Len(table[c]) : table[c][i].kind # "str"
            THEN "TypeError: object has no len()"
            ELSE IF table[c] = <<>> THEN "ValueError: max() arg is an empty sequence"
            ELSE "none"
        bad == {c \in 1..Len(table) : colErr(c) # "none"}
    IN
    IF bad # {}
    THEN [err |-> colErr(CHOOSE c \in bad : \A d \in bad : c <= d), text |-> <<>>]
    ELSE
    LET max_length(c) == MaxOf({Len(table[c][i].s) : i \in 1..Len(table[c])})
        padded == [c \in 1..Len(table) |->
                     [i \in 1..Len(table[c]) |->
                        Pad(table[c][i].s, max_length(c), T.centered)]]
    IN
    IF ~strict_zip_ok(padded)
    THEN [err |-> "ValueError: strict_zip", text |-> <<>>]
    ELSE IF T.style \notin DOMAIN STYLES
    THEN [err |-> "KeyError", text |-> <<>>]
    ELSE
    LET g == STYLES[T.style]
        pad == Repeat(" ", T.padding)
        rows == Transpose(padded)
        horizontals == [c \in 1..Len(rows[1]) |->
                          Repeat(g[2], Len(rows[1][c]) + 2 * T.padding)]
        body == [r \in 1..Len(rows) |->
                   <<g[1]>> \o pad \o Join(rows[r], pad \o <<g[1]>> \o pad) \o pad \o <<g[1]>>]
        top == <<g[3]>> \o Join(horizontals, <<g[4]>>) \o <<g[5]>>
        title == <<g[6]>> \o Join(horizontals, <<g[7]>>) \o <<g[8]>>
        bottom == <<g[9]>> \o Join(horizontals, <<g[10]>>) \o <<g[11]>>
        lines0 == <<top>> \o body
        lines1 == IF withLabels THEN PyInsert(lines0, 2, title) ELSE lines0
    IN  [err |-> "none", text |-> Join(Append(lines1, bottom), <<"\n">>)]

\* a render that clears _needs_rebuild before it builds, so that a build
\* that raises leaves the table not needing a rebuild (the render C17 must
\* tell apart from __str__)
StrClearsFirst(h, T) ==
    IF T.needs_rebuild
    THEN LET b == BuildTable(h, T)
         IN  IF b.err # "none"
             THEN [T |-> SetAttr(T, "needs_rebuild", FALSE), err |-> b.err, text |-> <<>>,
                   rebuilt |-> TRUE]
             ELSE LET T1 == SetAttr(T, "as_string", SomeString(b.text))
                  IN  [T |-> T1, err |-> "none", text |-> T1.as_string.text, rebuilt |-> TRUE]
    ELSE IF ~T.as_string.set
    THEN [T |-> T, err |-> "AttributeError", text |-> <<>>, rebuilt |-> FALSE]
    ELSE [T |-> T, err |-> "none", text |-> T.as_string.text, rebuilt |-> FALSE]

\* Table.__str__: [T, err, text, rebuilt]
Str(h, T) ==
    IF T.needs_rebuild
    THEN LET b == BuildTable(h, T)
         IN  IF b.err # "none"
             THEN [T |-> T, err |-> b.err, text |-> <<>>, rebuilt |-> TRUE]
             ELSE LET T1 == SetAttr(T, "as_string", SomeString(b.text))
                  IN  [T |-> T1, err |-> "none", text |-> T1.as_string.text, rebuilt |-> TRUE]
    ELSE IF ~T.as_string.set
    THEN [T |-> T, err |-> "AttributeError", text |-> <<>>, rebuilt |-> FALSE]
    ELSE [T |-> T, err |-> "none", text |-> T.as_string.text, rebuilt |-> FALSE]

(* --------------------------- mutating methods -------------------------- *)
\* utils.needs_rebuild: run the method, then set _needs_rebuild; an
\* exception leaves the method before the flag is set.
needs_rebuild(r) ==
    IF r.err = "none" THEN [r EXCEPT !.T = SetAttr(r.T, "needs_rebuild", TRUE)] ELSE r

ColumnArg(items) == [given |-> TRUE, items |-> items]
NoColumnArg == [given |-> FALSE, items |-> <<>>]

\* the body of Table.add_column up to the label (lines 116-142)
add_column_data(h, T, column, index, default) ==
    LET idx == IF index = None THEN Len(T.columns) ELSE index.n
    IN  IF column.given
        THEN LET column_as_strings == stringify(column.items)
             IN  IF T.columns # <<>> /\ Len(column_as_strings) # Len(h[T.columns[1]])
                 THEN Raise(h, T, "ValueError: column length mismatch")
                 ELSE LET a == Alloc(h, column_as_strings)
                      IN  Ok(a.h, [T EXCEPT !.columns = PyInsert(T.columns, idx, a.addr)])
        ELSE IF T.columns = <<>>
             THEN LET a == Alloc(h, <<>>)
                  IN  Ok(a.h, [T EXCEPT !.columns = Append(T.columns, a.addr)])
             ELSE LET a == Alloc(h, Repeat(Normalize(default), Len(h[T.columns[1]])))
                  IN  Ok(a.h, [T EXCEPT !.columns = PyInsert(T.columns, idx, a.addr)])

\* Table.add_column, undecorated
add_column_body(h, T, column, index, label, default) ==
    IF ~column.given /\ default = None
    THEN Raise(h, T, "ValueError: need column data or a default value")
    ELSE IF T.labels # NoneRef /\ label = None
    THEN Raise(h, T, "ValueError: label is required")
    ELSE LET idx == IF index = None THEN Len(T.columns) ELSE index.n
             r == add_column_data(h, T, column, index, default)
         IN  IF r.err # "none" \/ label = None THEN r
             ELSE IF r.T.labels = NoneRef
             THEN Raise(r.h, r.T, "AttributeError: 'NoneType' object has no attribute 'insert'")
             ELSE Ok([r.h EXCEPT ![r.T.labels] = PyInsert(@, idx, Normalize(label))], r.T)

add_column(h, T, column, index, label, default) ==
    needs_rebuild(add_column_body(h, T, column, index, label, default))

RECURSIVE InsertCells(_, _, _, _, _)
\* for i, item in enumerate(row_as_strings): self.columns[i].insert(index, item)
InsertCells(h, columns, items, index, i) ==
    IF i > Len(items) THEN h
    ELSE InsertCells([h EXCEPT ![columns[i]] = PyInsert(@, index, items[i])],
                     columns, items, index, i + 1)

\* Table.add_row, undecorated
add_row_body(h, T, row, index) ==
    LET row_as_strings == stringify(row)
    IN  IF T.columns = <<>>
        THEN LET a == AllocAll(h, [i \in 1..Len(row_as_strings) |-> <<row_as_strings[i]>>])
             IN  Ok(a.h, SetAttr(T, "columns", a.addrs))
        ELSE IF Len(row_as_strings) # Len(T.columns)
        THEN Raise(h, T, "ValueError: row length mismatch")
        ELSE LET idx == IF index = None THEN Len(h[T.columns[1]]) ELSE index.n
             IN  Ok(InsertCells(h, T.columns, row_as_strings, idx, 1), T)

add_row(h, T, row, index) == needs_rebuild(add_row_body(h, T, row, index))

\* Table.remove_column, undecorated; index is an int or a label
remove_column_body(h, T, index) ==
    IF index.kind = "str" /\ T.labels = NoneRef
    THEN Raise(h, T, "AttributeError: 'NoneType' object has no attribute 'index'")
    ELSE IF index.kind = "str" /\ PyIndex(h[T.labels], index) < 0
    THEN Raise(h, T, "ValueError: label is not in list")
    ELSE LET i == IF index.kind = "str" THEN PyIndex(h[T.labels], index) ELSE index.n
         IN  IF ~PyInRange(T.columns, i)
             THEN Raise(h, T, "IndexError: pop index out of range")
             ELSE LET T1 == [T EXCEPT !.columns = PyPop(T.columns, i)]
                  IN  IF ~LabelsTruthy(h, T) THEN Ok(h, T1)
                      ELSE IF ~PyInRange(h[T.labels], i)
                      THEN Raise(h, T1, "IndexError: pop index out of range")
                      ELSE Ok([h EXCEPT ![T.labels] = PyPop(@, i)], T1)

remove_column(h, T, index) == needs_rebuild(remove_column_body(h, T, index))

RECURSIVE PopCells(_, _, _, _)
\* for column in self.columns: column.pop(index); stops at the first
\* column that has no such cell
PopCells(h, columns, index, i) ==
    IF i > Len(columns) THEN [h |-> h, err |-> "none"]
    ELSE IF ~PyInRange(h[columns[i]], index)
    THEN [h |-> h, err |-> "IndexError: pop index out of range"]
    ELSE PopCells([h EXCEPT ![columns[i]] = PyPop(@, index)], columns, index, i + 1)

\* Table.remove_row, undecorated
remove_row_body(h, T, index) ==
    LET r == PopCells(h, T.columns, index.n, 1)
    IN  [h |-> r.h, T |-> T, err |-> r.err]

remove_row(h, T, index) == needs_rebuild(remove_row_body(h, T, index))

\* Table.relabel, undecorated: new is stored as given
relabel_body(h, T, old, new) ==
    IF T.labels = NoneRef
    THEN Raise(h, T, "AttributeError: 'NoneType' object has no attribute 'index'")
    ELSE IF PyIndex(h[T.labels], old) < 0
    THEN Raise(h, T, "ValueError: label is not in list")
    ELSE Ok([h EXCEPT ![T.labels][PyIndex(h[T.labels], old) + 1] = new], T)

relabel(h, T, old, new) == needs_rebuild(relabel_body(h, T, old, new))

\* Table.__setitem__ for a key (row, col) of two ints, undecorated
setitem_body(h, T, row, col, item) ==
    IF ~PyInRange(T.columns, col.n)
    THEN Raise(h, T, "IndexError: list index out of range")
    ELSE LET a == PyGet(T.columns, col.n)
         IN  IF ~PyInRange(h[a], row.n)
             THEN Raise(h, T, "IndexError: list assignment index out of range")
             ELSE Ok([h EXCEPT ![a][PyPos(h[a], row.n)] = Normalize(item)], T)

setitem(h, T, row, col, item) == needs_rebuild(setitem_body(h, T, row, col, item))

(* ------------------------------ indexing ------------------------------- *)
\* One side of a (rows, cols) key: ..., an int, a list, or anything else.
SEll == [kind |-> "Ellipsis", n |-> 0, items |-> <<>>]
SInt(i) == [kind |-> "int", n |-> i, items |-> <<>>]
SList(items) == [kind |-> "list", n |-> 0, items |-> items]
SideOf(v) == [kind |-> v.kind, n |-> v.n, items |-> <<>>]

\* A key: a bare str or int (v), a bare list (items), or a tuple (rows, cols).
KeyStr(v) == [shape |-> "str", v |-> v, items |-> <<>>, rows |-> SEll, cols |-> SEll]
KeyInt(i) == [shape |-> "int", v |-> IntV(i), items |-> <<>>, rows |-> SEll, cols |-> SEll]
KeyList(items) == [shape |-> "list", v |-> None, items |-> items, rows |-> SEll, cols |-> SEll]
KeyPair(rows, cols) == [shape |-> "pair", v |-> None, items |-> <<>>, rows |-> rows, cols |-> cols]

Resolved(rows, cols) == [err |-> "none", rows |-> rows, cols |-> cols]
Unresolved(e) == [err |-> e, rows |-> SEll, cols |-> SEll]

\* a slice lo:hi as one side of a key, and a tuple key of another length than 2
SSlice(lo, hi) == [kind |-> "slice", n |-> 0, items |-> <<IntV(lo), IntV(hi)>>]
KeyTuple(items) == [shape |-> "tuple", v |-> None, items |-> items, rows |-> SEll, cols |-> SEll]

\* the positions <<start, stop>> that list[lo:hi] selects in a list of n items
SliceBounds(n, lo, hi) ==
    LET start == IF lo < 0 THEN (IF n + lo < 0 THEN 0 ELSE n + lo) ELSE (IF lo > n THEN n ELSE lo)
        stop == IF hi < 0 THEN (IF n + hi < 0 THEN 0 ELSE n + hi) ELSE (IF hi > n THEN n ELSE hi)
    IN  <<start, IF stop < start THEN start ELSE stop>>

\* list[lo:hi] = xs
PySliceAssign(s, lo, hi, xs) ==
    LET b == SliceBounds(Len(s), lo, hi)
    IN  SubSeq(s, 1, b[1]) \o xs \o SubSeq(s, b[2] + 1, Len(s))

\* the items a str gives when iterated: its characters
Chars(v) == [i \in 1..Len(v.s) |-> StrV(<<v.s[i]>>)]

\* Table.__setitem__, lines 208-211: the check of the key and `row, col = key`.
\* The check raises only when all four of its conditions hold; each is
\* evaluated in turn and may raise on its own (len of an int, key[1] of a
\* one-item key); a key of another length than 2 that passes fails to unpack.
UnpackKey(key) ==
    CASE key.shape = "pair" -> Resolved(key.rows, key.cols)
      [] key.shape = "tuple" -> Unresolved("ValueError: wrong number of values to unpack")
      [] key.shape = "int" -> Unresolved("TypeError: object of type 'int' has no len()")
      [] key.shape = "str" ->
            IF Len(key.v.s) = 2
            THEN Resolved(SideOf(StrV(<<key.v.s[1]>>)), SideOf(StrV(<<key.v.s[2]>>)))
            ELSE IF Len(key.v.s) < 2 THEN Unresolved("IndexError: string index out of range")
            ELSE Unresolved("ValueError: invalid key")
      [] OTHER ->
            IF Len(key.items) = 2 THEN Resolved(SideOf(key.items[1]), SideOf(key.items[2]))
            ELSE IF key.items = <<>> THEN Unresolved("IndexError: list index out of range")
            ELSE IF key.items[1].kind = "int"
            THEN Unresolved("ValueError: wrong number of values to unpack")
            ELSE IF Len(key.items) = 1 THEN Unresolved("IndexError: list index out of range")
            ELSE IF key.items[2].kind = "int"
            THEN Unresolved("ValueError: wrong number of values to unpack")
            ELSE Unresolved("ValueError: invalid key")

\* Table.__setitem__ for any key, undecorated: line 212 is
\* self.columns[col][row] = str(item).strip() for whatever row and col are
setitem_key_body(h, T, key, item) ==
    LET k == UnpackKey(key)
    IN  IF k.err # "none" THEN Raise(h, T, k.err)
        ELSE CASE k.cols.kind = "int" ->
                    IF ~PyInRange(T.columns, k.cols.n)
                    THEN Raise(h, T, "IndexError: list index out of range")
                    ELSE LET a == PyGet(T.columns, k.cols.n)
                         IN  CASE k.rows.kind = "int" ->
                                     setitem_body(h, T, IntV(k.rows.n), IntV(k.cols.n), item)
                               [] k.rows.kind = "slice" ->
                                     Ok([h EXCEPT ![a] = PySliceAssign(h[a], k.rows.items[1].n,
                                                k.rows.items[2].n, Chars(Normalize(item)))], T)
                               [] OTHER ->
                                     Raise(h, T, "TypeError: list indices must be integers or slices")
               [] k.cols.kind = "slice" ->
                    LET b == SliceBounds(Len(T.columns), k.cols.items[1].n, k.cols.items[2].n)
                        picked == SubSeq(T.columns, b[1] + 1, b[2])
                    IN  CASE k.rows.kind = "int" ->
                                IF PyInRange(picked, k.rows.n) THEN Ok(h, T)
                                ELSE Raise(h, T, "IndexError: list assignment index out of range")
                          [] k.rows.kind = "slice" -> Ok(h, T)
                          [] OTHER ->
                                Raise(h, T, "TypeError: list indices must be integers or slices")
               [] OTHER -> Raise(h, T, "TypeError: list indices must be integers or slices")

setitem_key(h, T, key, item) == needs_rebuild(setitem_key_body(h, T, key, item))

\* Table.__getitem__, lines 215-234: the key as a pair (rows, cols)
ResolveKey(h, T, key) ==
    CASE key.shape = "list" ->
            IF key.items = <<>> THEN Unresolved("IndexError: list index out of range")
            ELSE IF key.items[1].kind = "int" THEN Resolved(SList(key.items), SEll)
            ELSE IF key.items[1].kind = "str"
            THEN IF ~LabelsTruthy(h, T) THEN Unresolved("ValueError: table has no labels")
                 ELSE IF \E i \in 1..Len(key.items) : PyIndex(h[T.labels], key.items[i]) < 0
                 THEN Unresolved("ValueError: label is not in list")
                 ELSE Resolved(SEll, SList([i \in 1..Len(key.items) |->
                                              IntV(PyIndex(h[T.labels], key.items[i]))]))
            ELSE IF Len(key.items) # 2 THEN Unresolved("ValueError: invalid key")
            ELSE Resolved(SideOf(key.items[1]), SideOf(key.items[2]))
      [] key.shape = "str" ->
            IF ~LabelsTruthy(h, T) THEN Unresolved("ValueError: table has no labels")
            ELSE IF PyIndex(h[T.labels], key.v) < 0
            THEN Unresolved("ValueError: label is not in list")
            ELSE Resolved(SEll, SInt(PyIndex(h[T.labels], key.v)))
      [] key.shape = "int" -> Resolved(SInt(key.v.n), SEll)
      [] OTHER -> Resolved(key.rows, key.cols)

\* what an index read returns: a column (the list object itself), a row
\* or a cell (new values), a new Table, or an exception
Fails(h, e) == [kind |-> "error", err |-> e, addr |-> 0, items |-> <<>>, h |-> h, T |-> NoTable]
ReturnsColumn(h, a) ==
    [kind |-> "column", err |-> "none", addr |-> a, items |-> h[a], h |-> h, T |-> NoTable]
ReturnsRow(h, items) ==
    [kind |-> "row", err |-> "none", addr |-> 0, items |-> items, h |-> h, T |-> NoTable]
ReturnsCell(h, v) ==
    [kind |-> "cell", err |-> "none", addr |-> 0, items |-> <<v>>, h |-> h, T |-> NoTable]
ReturnsTable(h, T) ==
    [kind |-> "table", err |-> "none", addr |-> 0, items |-> <<>>, h |-> h, T |-> T]

\* Table.copy: a new Table() given every slot of self but _as_string; the
\* label list and the column lists are the same objects as self's.
Copy(h, T) ==
    LET fresh == Construct(h, <<>>, NoLabelsArg, FALSE, 1, "light").T
    IN  SetAttr(SetAttr(SetAttr(SetAttr(SetAttr(SetAttr(fresh,
            "needs_rebuild", T.needs_rebuild), "columns", T.columns), "labels", T.labels),
            "centered", T.centered), "padding", T.padding), "style", T.style)

\* key (..., [c1, ...]), lines 238-243
SelectColumns(h, T, cols) ==
    IF \E i \in 1..Len(cols) : cols[i].kind # "int"
    THEN Fails(h, "TypeError: list indices must be integers")
    ELSE IF \E i \in 1..Len(cols) : ~PyInRange(T.columns, cols[i].n)
    THEN Fails(h, "IndexError: list index out of range")
    ELSE LET table == SetAttr(Copy(h, T), "columns",
                              [i \in 1..Len(cols) |-> PyGet(T.columns, cols[i].n)])
         IN  IF ~LabelsTruthy(h, T) THEN ReturnsTable(h, table)
             ELSE IF \E i \in 1..Len(cols) : ~PyInRange(h[T.labels], cols[i].n)
             THEN Fails(h, "IndexError: list index out of range")
             ELSE LET r == SetLabels(h, table,
                               LabelsArg([i \in 1..Len(cols) |-> PyGet(h[T.labels], cols[i].n)]))
                  IN  IF r.err # "none" THEN Fails(h, r.err) ELSE ReturnsTable(r.h, r.T)

\* a row selection that takes the first selected row out of the source's
\* columns (column.pop(row) for column[row]): the read C19 must tell apart
\* from lines 251-256
SelectRowsPopping(h, T, rows) ==
    IF \E i \in 1..Len(rows) : rows[i].kind # "int"
    THEN Fails(h, "TypeError: list indices must be integers")
    ELSE IF \E i \in 1..Len(rows) : \E c \in 1..Len(T.columns) :
                ~PyInRange(h[T.columns[c]], rows[i].n)
    THEN Fails(h, "IndexError: list index out of range")
    ELSE LET data == [i \in 1..Len(rows) |->
                        [c \in 1..Len(T.columns) |-> PyGet(h[T.columns[c]], rows[i].n)]]
             h1 == IF rows = <<>> THEN h ELSE PopCells(h, T.columns, rows[1].n, 1).h
             r == Construct(h1, data,
                            IF T.labels = NoneRef THEN NoLabelsArg ELSE LabelsArg(h[T.labels]),
                            T.centered, T.padding, T.style)
         IN  IF r.err # "none" THEN Fails(h1, r.err) ELSE ReturnsTable(r.h, r.T)

\* key ([r1, ...], ...), lines 251-256
SelectRows(h, T, rows) ==
    IF \E i \in 1..Len(rows) : rows[i].kind # "int"
    THEN Fails(h, "TypeError: list indices must be integers")
    ELSE IF \E i \in 1..Len(rows) : \E c \in 1..Len(T.columns) :
                ~PyInRange(h[T.columns[c]], rows[i].n)
    THEN Fails(h, "IndexError: list index out of range")
    ELSE LET data == [i \in 1..Len(rows) |->
                        [c \in 1..Len(T.columns) |-> PyGet(h[T.columns[c]], rows[i].n)]]
             r == Construct(h, data,
                            IF T.labels = NoneRef THEN NoLabelsArg ELSE LabelsArg(h[T.labels]),
                            T.centered, T.padding, T.style)
         IN  IF r.err # "none" THEN Fails(h, r.err) ELSE ReturnsTable(r.h, r.T)

\* Table.__getitem__
getitem(h, T, key) ==
    LET k == ResolveKey(h, T, key)
    IN  IF k.err # "none" THEN Fails(h, k.err)
        ELSE CASE k.rows.kind = "Ellipsis" /\ k.cols.kind = "int" ->
                    IF ~PyInRange(T.columns, k.cols.n)
                    THEN Fails(h, "IndexError: list index out of range")
                    ELSE ReturnsColumn(h, PyGet(T.columns, k.cols.n))
               [] k.rows.kind = "Ellipsis" /\ k.cols.kind = "list" ->
                    SelectColumns(h, T, k.cols.items)
               [] k.rows.kind = "int" /\ k.cols.kind = "Ellipsis" ->
                    IF \E c \in 1..Len(T.columns) : ~PyInRange(h[T.columns[c]], k.rows.n)
                    THEN Fails(h, "IndexError: list index out of range")
                    ELSE ReturnsRow(h, [c \in 1..Len(T.columns) |->
                                          PyGet(h[T.columns[c]], k.rows.n)])
               [] k.rows.kind = "int" /\ k.cols.kind = "int" ->
                    IF ~PyInRange(T.columns, k.cols.n)
                       \/ ~PyInRange(h[PyGet(T.columns, k.cols.n)], k.rows.n)
                    THEN Fails(h, "IndexError: list index out of range")
                    ELSE ReturnsCell(h, PyGet(h[PyGet(T.columns, k.cols.n)], k.rows.n))
               [] k.rows.kind = "list" /\ k.cols.kind = "Ellipsis" ->
                    SelectRows(h, T, k.rows.items)
               [] OTHER -> Fails(h, "ValueError: invalid key")

(* ------------------------- object identity ----------------------------- *)
\* the list objects a table refers to
Refs(T) == T.columns \o (IF T.labels = NoneRef THEN <<>> ELSE <<T.labels>>)

RECURSIVE Dedup(_)
Dedup(s) ==
    IF s = <<>> THEN <<>>
    ELSE LET front == Dedup(SubSeq(s, 1, Len(s) - 1))
         IN  IF \E i \in 1..Len(front) : front[i] = s[Len(s)] THEN front
             ELSE Append(front, s[Len(s)])

\* Drop the list objects no table refers to (Python frees them) and number
\* the others in the order the tables name them: an address means nothing
\* beyond which references are equal.
Collect(h, Ts) ==
    LET order == Dedup(Refs(Ts[Src]) \o Refs(Ts[Der]))
        ren(a) == CHOOSE i \in 1..Len(order) : order[i] = a
    IN  [h |-> [i \in 1..Len(order) |-> h[order[i]]],
         Ts |-> [t \in TableIds |->
                   [Ts[t] EXCEPT !.columns = [k \in 1..Len(Ts[t].columns) |-> ren(Ts[t].columns[k])],
                                 !.labels = IF Ts[t].labels = NoneRef THEN NoneRef
                                            ELSE ren(Ts[t].labels)]]]

(* ------------------------------ inputs --------------------------------- *)
\* values handed in as cells and labels: a str with whitespace to strip, an int
CellInputs == {StrV(<<" ", "a">>), IntV(10)}
\* the same values as they are stored, used as lookup keys
LabelKeys == {StrV(<<"a">>), StrV(<<"1", "0">>)}
StyleInputs == {"light", "ascii", "gothic"}

SeqsUpTo(S, n) == UNION {[1..k -> S] : k \in 0..n}

\* positions handed in: the valid ones, one past the end, and the last by -1
ColumnPositions == (0 - 1)..MaxCols
RowPositions == (0 - 1)..MaxRows
OptionalValue == {None} \cup CellInputs

\* add_column(column, index, label, default): a column of any height with
\* or without an index and a label, or a default to broadcast
ColumnInputs == {ColumnArg(c) : c \in SeqsUpTo(CellInputs, MaxRows)}
AddColumnInputs ==
    [column : ColumnInputs, index : {None, IntV(0)}, label : OptionalValue, default : {None}]
    \cup [column : {NoColumnArg}, index : {None, IntV(0)}, label : OptionalValue,
          default : {None, IntV(10)}]
    \cup [column : {ColumnArg(<<>>)}, index : {None}, label : {None}, default : {IntV(10)}]
AddRowInputs == [row : SeqsUpTo(CellInputs, MaxCols), index : {None, IntV(0)}]
RemoveColumnInputs == LabelKeys \cup {IntV(i) : i \in ColumnPositions}
RemoveRowInputs == {IntV(i) : i \in RowPositions}
RelabelInputs == [old : LabelKeys, new : CellInputs]
SetItemInputs == [row : RowPositions, col : ColumnPositions, item : CellInputs]
\* keys of a cell assignment that are not a pair (int, int)
OtherKeys ==
    {KeyInt(0), KeyStr(StrV(<<"a">>)), KeyStr(StrV(<<"1", "0">>)),
     KeyList(<<IntV(0), IntV(0)>>), KeyList(<<IntV(0)>>), KeyList(<<StrV(<<"a">>)>>),
     KeyPair(SEll, SInt(0)), KeyPair(SInt(0), SEll),
     KeyPair(SSlice(0, 1), SInt(0)), KeyPair(SInt(0), SSlice(0, 1)),
     KeyPair(SList(<<IntV(0)>>), SInt(0)),
     KeyTuple(<<IntV(0)>>), KeyTuple(<<IntV(0), IntV(0), IntV(0)>>)}
SetItemKeyInputs == [key : OtherKeys, item : CellInputs]
LabelsInputs == {NoLabelsArg} \cup {LabelsArg(l) : l \in SeqsUpTo(CellInputs, MaxCols)}

\* the model keeps tables within MaxCols columns of MaxRows cells
Within(h, Ts) ==
    \A t \in TableIds :
        /\ Len(Ts[t].columns) <= MaxCols
        /\ \A c \in 1..Len(Ts[t].columns) : Len(h[Ts[t].columns[c]]) <= MaxRows
        /\ Len(LabelsOf(h, Ts[t])) <= MaxCols

Live(t) == tables[t].live

\* __str__ reads _as_string only when _needs_rebuild is false (lines 261-263),
\* and _build_table assigns it before it is read otherwise: the text a table
\* holds while it needs a rebuild is never read again, and is dropped here.
Forget(T) == IF T.needs_rebuild THEN [T EXCEPT !.as_string = NoString] ELSE T

\* The state after a method of table t returned or raised `result`.
\* `outcome` selects the calls taken: "any", "returned" or "raised".
Step(t, r, outcome) ==
        /\ outcome = "returned" => r.err = "none"
        /\ outcome = "raised" => r.err # "none"
        /\ \E c \in {Collect(r.h, [tables EXCEPT ![t] = Forget(r.T)])} :
              /\ Within(c.h, c.Ts)
              /\ heap' = c.h
              /\ tables' = c.Ts

(* ------------------------------- Init ---------------------------------- *)
\* Table(*rows, labels=...), for every input the constructor accepts with
\* cells drawn from C and labels from L
Constructed(C, L) ==
    \E ncols \in 0..MaxCols :
    \E rows \in SeqsUpTo([1..ncols -> C], MaxRows) :
    \E labels \in {NoLabelsArg} \cup {LabelsArg(l) : l \in [1..ncols -> L]} :
        \E r \in {Construct(<<>>, rows, labels, FALSE, 1, "light")} :
            /\ ncols = 0 => rows = <<>>
            /\ r.err = "none"
            /\ heap = r.h
            /\ tables = [t \in TableIds |-> IF t = Src THEN r.T ELSE NoTable]

Init == Constructed(CellInputs, CellInputs)

\* the sources of the derived tables: one cell value, any labels
InitDerived == Constructed({StrV(<<" ", "a">>)}, CellInputs)

(* ------------------------------- calls --------------------------------- *)
\* what each method returns or raises on table T, over its inputs
AddColumnCalls(h, T) ==
    {add_column(h, T, a.column, a.index, a.label, a.default) : a \in AddColumnInputs}
AddRowCalls(h, T) == {add_row(h, T, a.row, a.index) : a \in AddRowInputs}
RemoveColumnCalls(h, T) == {remove_column(h, T, index) : index \in RemoveColumnInputs}
RemoveRowCalls(h, T) == {remove_row(h, T, index) : index \in RemoveRowInputs}
RelabelCalls(h, T) == {relabel(h, T, a.old, a.new) : a \in RelabelInputs}
SetItemCalls(h, T) == {setitem(h, T, IntV(a.row), IntV(a.col), a.item) : a \in SetItemInputs}
SetItemKeyCalls(h, T) == {setitem_key(h, T, a.key, a.item) : a \in SetItemKeyInputs}
\* table.labels = ..., table.style = ..., table.centered = ..., table.padding = ...
AssignLabelsCalls(h, T) == {SetLabels(h, T, labels) : labels \in LabelsInputs}
AssignStyleCalls(h, T) == {Ok(h, SetAttr(T, "style", style)) : style \in StyleInputs}
AssignCenteredCalls(h, T) == {Ok(h, SetAttr(T, "centered", centered)) : centered \in BOOLEAN}
AssignPaddingCalls(h, T) == {Ok(h, SetAttr(T, "padding", padding)) : padding \in 0..MaxPadding}

MutationCalls(h, T) ==
    AddColumnCalls(h, T) \cup AddRowCalls(h, T) \cup RemoveColumnCalls(h, T)
    \cup RemoveRowCalls(h, T) \cup RelabelCalls(h, T) \cup SetItemCalls(h, T)
    \cup SetItemKeyCalls(h, T)

ConfigurationCalls(h, T) ==
    AssignLabelsCalls(h, T) \cup AssignStyleCalls(h, T) \cup AssignCenteredCalls(h, T)
    \cup AssignPaddingCalls(h, T)

(* ------------------------------ actions -------------------------------- *)
AddColumn(t, outcome) ==
    Live(t) /\ \E r \in AddColumnCalls(heap, tables[t]) : Step(t, r, outcome)

AddRow(t, outcome) ==
    Live(t) /\ \E r \in AddRowCalls(heap, tables[t]) : Step(t, r, outcome)

RemoveColumn(t, outcome) ==
    Live(t) /\ \E r \in RemoveColumnCalls(heap, tables[t]) : Step(t, r, outcome)

RemoveRow(t, outcome) ==
    Live(t) /\ \E r \in RemoveRowCalls(heap, tables[t]) : Step(t, r, outcome)

Relabel(t, outcome) ==
    Live(t) /\ \E r \in RelabelCalls(heap, tables[t]) : Step(t, r, outcome)

SetItem(t, outcome) ==
    Live(t) /\ \E r \in SetItemCalls(heap, tables[t]) : Step(t, r, outcome)

SetItemKey(t, outcome) ==
    Live(t) /\ \E r \in SetItemKeyCalls(heap, tables[t]) : Step(t, r, outcome)

AssignLabels(t, outcome) ==
    Live(t) /\ \E r \in AssignLabelsCalls(heap, tables[t]) : Step(t, r, outcome)

AssignStyle(t, outcome) ==
    Live(t) /\ \E r \in AssignStyleCalls(heap, tables[t]) : Step(t, r, outcome)

AssignCentered(t, outcome) ==
    Live(t) /\ \E r \in AssignCenteredCalls(heap, tables[t]) : Step(t, r, outcome)

AssignPadding(t, outcome) ==
    Live(t) /\ \E r \in AssignPaddingCalls(heap, tables[t]) : Step(t, r, outcome)

\* str(table)
Render(t) ==
    /\ Live(t)
    /\ \E r \in {Str(heap, tables[t])} :
           /\ heap' = heap
           /\ tables' = [tables EXCEPT ![t] = r.T]

ColumnLists == SeqsUpTo({IntV(i) : i \in 0..MaxCols}, MaxCols)
RowLists == SeqsUpTo({IntV(i) : i \in 0..MaxRows}, MaxRows)

KeyInputs ==
    {KeyStr(l) : l \in LabelKeys}
    \cup {KeyInt(i) : i \in RowPositions}
    \cup {KeyList(l) : l \in RowLists \cup SeqsUpTo(LabelKeys, MaxCols)}
    \cup {KeyPair(r, c) : r \in {SEll} \cup {SInt(i) : i \in RowPositions},
                          c \in {SEll} \cup {SInt(i) : i \in ColumnPositions}}
    \cup {KeyPair(SEll, SList(l)) : l \in ColumnLists}
    \cup {KeyPair(SList(l), SEll) : l \in RowLists}

\* derived = source[key], for a key that returns a Table; one table is
\* derived in a run
Select ==
    /\ Live(Src)
    /\ ~Live(Der)
    /\ \E key \in KeyInputs :
          \E r \in {getitem(heap, tables[Src], key)} :
          \E c \in {Collect(r.h, [tables EXCEPT ![Der] = r.T])} :
              /\ r.kind = "table"
              /\ Within(c.h, c.Ts)
              /\ heap' = c.h
              /\ tables' = c.Ts

\* table[key], for a key that returns a cell, a row or a column, or raises
GetItem(t) ==
    /\ Live(t)
    /\ \E key \in KeyInputs :
          \E r \in {getitem(heap, tables[t], key)} :
              /\ r.kind # "table"
              /\ UNCHANGED <<heap, tables>>

\* the methods that change the column store or the labels
Mutate(t, outcome) ==
    \/ AddColumn(t, outcome)
    \/ AddRow(t, outcome)
    \/ RemoveColumn(t, outcome)
    \/ RemoveRow(t, outcome)
    \/ Relabel(t, outcome)
    \/ SetItem(t, outcome)
    \/ SetItemKey(t, outcome)

\* the attribute assignments
Configure(t, outcome) ==
    \/ AssignLabels(t, outcome)
    \/ AssignStyle(t, outcome)
    \/ AssignCentered(t, outcome)
    \/ AssignPadding(t, outcome)

\* one table, every call, whether it returns or raises
Next ==
    \/ Mutate(Src, "any")
    \/ Configure(Src, "any")
    \/ Render(Src)
    \/ GetItem(Src)

Spec == Init /\ [][Next]_vars

\* one table, the calls that return
NextOk ==
    \/ Mutate(Src, "returned")
    \/ Configure(Src, "returned")
    \/ Render(Src)

SpecOk == Init /\ [][NextOk]_vars

\* whether the derived table holds a list object that its source holds
Shares ==
    \E i \in 1..Len(Refs(tables[Src])) : \E j \in 1..Len(Refs(tables[Der])) :
        Refs(tables[Src])[i] = Refs(tables[Der])[j]

\* a source and a table derived from it: the derived table is mutated while
\* it shares a list with its source, and the source is rendered
NextDerived ==
    \/ Select
    \/ (Shares /\ Mutate(Der, "any"))
    \/ Render(Src)

SpecDerived == InitDerived /\ [][NextDerived]_vars

(* ------------------------------ claims --------------------------------- *)
Source == tables[Src]
Derived == tables[Der]

\* all columns have one length
EqualHeights(h, T) ==
    \A i, j \in 1..Len(T.columns) : Len(h[T.columns[i]]) = Len(h[T.columns[j]])

\* labels, when there are any, number as many as the columns
LabelsMatch(h, T) == T.labels # NoneRef => Len(h[T.labels]) = Len(T.columns)

\* C1: after every successful call on a successfully constructed table (one
\* built with no rows and labels=[] included), all columns have the same
\* length and, if labels is not None, there are as many labels as columns.
C1_ShapeInvariant == EqualHeights(heap, Source) /\ LabelsMatch(heap, Source)

\* whether the cached text of T is the text the layout produces now
CacheValid(h, T) ==
    /\ T.as_string.set
    /\ BuildTable(h, T).err = "none"
    /\ T.as_string.text = BuildTable(h, T).text

\* C2: on one table, after successful mutations and configuration
\* assignments interleaved with renders, the table needs a rebuild whenever
\* one of them happened since the last successful render: a table that does
\* not need a rebuild holds the text the layout produces from its current
\* columns, labels and configuration, and every successful mutation or
\* assignment leaves it needing a rebuild.
C2_CacheValid ==
    /\ ~Source.needs_rebuild => CacheValid(heap, Source)
    /\ \A r \in MutationCalls(heap, Source) \cup ConfigurationCalls(heap, Source) :
          r.err = "none" => r.T.needs_rebuild
    /\ Str(heap, Source).err = "none" =>
          Str(heap, Source).text = BuildTable(heap, Source).text

\* a rendered table of two columns whose style, alignment and padding were
\* all assigned after construction
C2_Witness ==
    /\ ~Source.needs_rebuild
    /\ Source.as_string.set /\ Source.as_string.text # <<>>
    /\ Source.style = "ascii" /\ Source.centered /\ Source.padding = 0
    /\ Len(Source.columns) = 2 /\ Source.labels # NoneRef

\* C3: a successful render leaves the table not needing a rebuild, and a
\* render of a table that does not need a rebuild returns the stored text,
\* does not run the layout and changes nothing: two renders in a row return
\* the same text and the second does not rebuild.
C3_IdempotentRender ==
    LET first == Str(heap, Source)
        second == Str(heap, first.T)
    IN  first.err = "none" =>
            /\ ~first.T.needs_rebuild
            /\ second.err = "none"
            /\ ~second.rebuilt
            /\ second.text = first.text
            /\ second.T = first.T

\* a rendered table with a row: the next render is the second in a row
C3_Witness ==
    /\ ~Source.needs_rebuild
    /\ Source.as_string.set /\ Source.as_string.text # <<>>
    /\ Len(Source.columns) = 2 /\ Len(heap[Source.columns[1]]) = 1

\* the cells and the labels a table shows to its reader
Cells(h, T) == ColumnsOf(h, T)
Labels(h, T) == IF T.labels = NoneRef THEN <<None>> ELSE h[T.labels]

\* what str(table) returns or raises
Rendered(h, T) == [err |-> Str(h, T).err, text |-> Str(h, T).text]

\* C4: a table derived by column-list or row-list selection shares nothing
\* with its source: a mutation of the derived table that returns leaves
\* every cell and every label of the source as it was.
C4_NoAliasing ==
    [][Mutate(Der, "returned") =>
         /\ Cells(heap', tables'[Src]) = Cells(heap, Source)
         /\ Labels(heap', tables'[Src]) = Labels(heap, Source)]_vars

\* C5: a mutation of the derived table never changes what rendering the
\* source returns, whether or not the source needed a rebuild.
C5_SourceRenderUnchanged ==
    [][Mutate(Der, "returned") =>
         Rendered(heap', tables'[Src]) = Rendered(heap, Source)]_vars

\* the columns, labels and configuration of a table
Content(h, T) ==
    [cells |-> Cells(h, T), labels |-> Labels(h, T), centered |-> T.centered,
     padding |-> T.padding, style |-> T.style]

\* C6: a mutating call that raises leaves the columns, the labels and the
\* configuration exactly as they were before the call.
C6_AtomicFailure ==
    [][Mutate(Src, "raised") => Content(heap', tables'[Src]) = Content(heap, Source)]_vars

\* the inputs of add_column that name a label and give usable column data
LabelledColumns(h, T) ==
    {a \in AddColumnInputs :
        /\ a.label # None
        /\ a.column.given \/ a.default # None
        /\ (a.column.given /\ T.columns # <<>>) => Len(a.column.items) = Len(h[T.columns[1]])}

\* C7: add_column with a label on a table whose labels is None returns (a
\* warning only), inserts the column and leaves labels None; on a table with
\* labels it raises without a label and with one inserts the label where it
\* inserts the column.
C7_LabelOnUnlabelledTable ==
    /\ Source.labels = NoneRef =>
          \A a \in LabelledColumns(heap, Source) :
              LET r == add_column(heap, Source, a.column, a.index, a.label, a.default)
              IN  /\ r.err = "none"
                  /\ r.T.labels = NoneRef
                  /\ Len(r.T.columns) = Len(Source.columns) + 1
    /\ Source.labels # NoneRef =>
          \A a \in AddColumnInputs :
              LET r == add_column(heap, Source, a.column, a.index, a.label, a.default)
              IN  /\ (a.label = None /\ (a.column.given \/ a.default # None)) =>
                         r.err = "ValueError: label is required"
                  /\ (a.label # None /\ r.err = "none" /\ LabelsMatch(heap, Source)) =>
                         \E k \in 1..Len(r.T.columns) :
                             /\ r.h[r.T.labels][k] = Normalize(a.label)
                             /\ r.T.columns[k] \notin {Source.columns[i] : i \in 1..Len(Source.columns)}

\* the positions (row, col), counted from 0, of the cells of T
Positions(h, T) ==
    {p \in (0..MaxRows) \X (0..MaxCols) :
        p[2] < Len(T.columns) /\ p[1] < Len(h[T.columns[p[2] + 1]])}

CellAt(h, T, p) == h[T.columns[p[2] + 1]][p[1] + 1]

\* the position a key (row, col) names, negative indices resolved
Resolve(h, T, row, col) ==
    <<PyPos(h[PyGet(T.columns, col)], row) - 1, PyPos(T.columns, col) - 1>>

\* C8: for every table and every valid (row, col), after table[row, col] = v
\* reading table[row, col] returns str(v) stripped, and every other cell of
\* the table is what it was.
C8_RoundTrip ==
    \A t \in TableIds : \A a \in SetItemInputs :
        LET T == tables[t]
            r == setitem(heap, T, IntV(a.row), IntV(a.col), a.item)
        IN  (T.live /\ r.err = "none") =>
                /\ getitem(r.h, r.T, KeyPair(SInt(a.row), SInt(a.col)))
                      = ReturnsCell(r.h, Normalize(a.item))
                /\ \A p \in Positions(heap, T) :
                      p # Resolve(heap, T, a.row, a.col) =>
                          CellAt(r.h, r.T, p) = CellAt(heap, T, p)

\* table[L] and table[..., i] agree for the label L at position i (from 0)
SameColumn(h, T, i) ==
    getitem(h, T, KeyStr(h[T.labels][i + 1])) = getitem(h, T, KeyPair(SEll, SInt(i)))

TextLabelAt(h, T, i) == h[T.labels][i + 1].kind = "str"

\* C9 as stated: for every table with labels and every position i, indexing
\* by the label text stored at i returns the column at position i, whether
\* or not the same text is also stored at another position.
C9_LabelPositionEquivalence ==
    Source.labels # NoneRef =>
        \A i \in 0..(Len(heap[Source.labels]) - 1) :
            TextLabelAt(heap, Source, i) => SameColumn(heap, Source, i)

\* the label text stored at position i is stored at no earlier position
FirstOccurrence(h, T, i) ==
    \A j \in 0..(i - 1) : h[T.labels][j + 1] # h[T.labels][i + 1]

\* C9 as amended: for every table with labels and every text L stored in
\* them, indexing by L returns the same column as indexing by the column
\* position i of the first position at which L is stored (every position,
\* when the labels are distinct).
C9_FirstLabelPositionEquivalence ==
    Source.labels # NoneRef =>
        \A i \in 0..(Len(heap[Source.labels]) - 1) :
            (TextLabelAt(heap, Source, i) /\ FirstOccurrence(heap, Source, i))
                => SameColumn(heap, Source, i)

\* two columns of different cells under one label text: the label names
\* the first of them
C9_Witness ==
    /\ Source.labels # NoneRef
    /\ Len(heap[Source.labels]) = 2 /\ Len(Source.columns) = 2
    /\ heap[Source.labels][1] = heap[Source.labels][2]
    /\ heap[Source.labels][1].kind = "str"
    /\ heap[Source.columns[1]] # heap[Source.columns[2]]
    /\ getitem(heap, Source, KeyStr(heap[Source.labels][1])).addr = Source.columns[1]

\* C10: rendering a table of no columns returns the empty text, and
\* rendering a table of columns without rows returns, with or without
\* labels (the style being one of Table.STYLES).
C10_DegenerateRender ==
    /\ Source.columns = <<>> =>
          Rendered(heap, Source) = [err |-> "none", text |-> <<>>]
    /\ (/\ Source.columns # <<>>
        /\ \A c \in 1..Len(Source.columns) : heap[Source.columns[c]] = <<>>
        /\ Source.style \in DOMAIN STYLES)
          => Rendered(heap, Source).err = "none"

\* Table(labels=L) without rows, for the label sequences L that are not empty
LabelledEmptyTables(h) ==
    {Construct(h, <<>>, LabelsArg(L), FALSE, 1, "light") :
        L \in SeqsUpTo(CellInputs, MaxCols) \ {<<>>}}

\* C11: constructing a Table of no rows with a label sequence that is not
\* empty succeeds and gives one column per label, no rows, and a render
\* that returns (a header-only table).
C11_LabelsWithoutRows ==
    \A r \in LabelledEmptyTables(heap) :
        /\ r.err = "none"
        /\ Len(r.T.columns) = Len(r.h[r.T.labels])
        /\ \A c \in 1..Len(r.T.columns) : r.h[r.T.columns[c]] = <<>>
        /\ Str(r.h, r.T).err = "none"

\* C12: a cell assignment whose key is not a pair (int, int) fails with
\* "invalid key" and leaves every column, its length included, as it was
\* (stated on the tables that hold a cell (0, 0), where no position a key
\* names is out of range).
C12_InvalidWriteKey ==
    <<0, 0>> \in Positions(heap, Source) =>
        \A a \in SetItemKeyInputs :
            LET r == setitem_key(heap, Source, a.key, a.item)
            IN  /\ r.err = "ValueError: invalid key"
                /\ ColumnsOf(r.h, r.T) = ColumnsOf(heap, Source)

\* new is old with the one item x put in after its first k items
InsertedAt(old, new, k, x) ==
    new = SubSeq(old, 1, k) \o <<x>> \o SubSeq(old, k + 1, Len(old))

\* C13: add_row(row) on a table of no columns returns and leaves len(row)
\* columns of one cell each, the normalized row elements in order; on a
\* table with columns it raises "row length mismatch" when len(row) is not
\* the number of columns, and otherwise puts exactly one cell into each
\* column, at the given index or by default at the end, the cells that
\* were there keeping their order.
C13_AddRow ==
    \A t \in TableIds : \A a \in AddRowInputs :
        LET T == tables[t]
            r == add_row(heap, T, a.row, a.index)
        IN  T.live =>
              IF T.columns = <<>>
              THEN /\ r.err = "none"
                   /\ Len(r.T.columns) = Len(a.row)
                   /\ \A i \in 1..Len(a.row) : r.h[r.T.columns[i]] = <<Normalize(a.row[i])>>
              ELSE IF Len(a.row) # Len(T.columns)
              THEN /\ r.err = "ValueError: row length mismatch"
                   /\ ColumnsOf(r.h, r.T) = ColumnsOf(heap, T)
              ELSE /\ r.err = "none"
                   /\ r.T.columns = T.columns
                   /\ \A i \in 1..Len(T.columns) :
                         InsertedAt(heap[T.columns[i]], r.h[T.columns[i]],
                                    IF a.index = None THEN Len(heap[T.columns[i]]) ELSE a.index.n,
                                    Normalize(a.row[i]))

\* the columns of T, each with the label above it (None where there is none)
LabelledColumnsOf(h, T) ==
    [i \in 1..Len(T.columns) |->
        [label |-> IF T.labels # NoneRef /\ i <= Len(h[T.labels]) THEN h[T.labels][i] ELSE None,
         cells |-> h[T.columns[i]]]]

\* C14: remove_column by position or by label removes exactly one column
\* and, on a table with labels, its label; the other columns keep their
\* cells, their order and their labels; a label that is not stored raises
\* (list.index's ValueError) and a position out of bounds raises IndexError,
\* both leaving the table as it was. Stated for positions on every table
\* and for labels on the tables that have labels.
C14_RemoveColumn ==
    \A index \in RemoveColumnInputs :
        LET r == remove_column(heap, Source, index)
            labels == LabelsOf(heap, Source)
            p == IF index.kind = "str" THEN PyIndex(labels, index) + 1
                 ELSE PyPos(Source.columns, index.n)
            known == IF index.kind = "str" THEN PyIndex(labels, index) >= 0
                     ELSE PyInRange(Source.columns, index.n)
        IN  (index.kind = "str" => Source.labels # NoneRef) =>
              IF known
              THEN /\ r.err = "none"
                   /\ LabelledColumnsOf(r.h, r.T) =
                         SubSeq(LabelledColumnsOf(heap, Source), 1, p - 1)
                         \o SubSeq(LabelledColumnsOf(heap, Source), p + 1, Len(Source.columns))
                   /\ (Source.labels = NoneRef) = (r.T.labels = NoneRef)
              ELSE /\ r.err = IF index.kind = "str" THEN "ValueError: label is not in list"
                              ELSE "IndexError: pop index out of range"
                   /\ Content(r.h, r.T) = Content(heap, Source)

\* C15: relabel(old, new) on a table whose labels hold old returns, puts
\* new, as text, in the place of (the first) old, changes no cell and no
\* other label and leaves the table needing a rebuild: the labels stay a
\* sequence of text that renders; it raises, changing nothing, when old is
\* not a label or the table has no labels.
C15_Relabel ==
    \A a \in RelabelInputs :
        LET r == relabel(heap, Source, a.old, a.new)
            labels == LabelsOf(heap, Source)
            p == PyIndex(labels, a.old) + 1
        IN  IF Source.labels = NoneRef \/ p = 0
            THEN /\ r.err # "none"
                 /\ Source.labels # NoneRef => r.err = "ValueError: label is not in list"
                 /\ Content(r.h, r.T) = Content(heap, Source)
            ELSE /\ r.err = "none"
                 /\ r.T.needs_rebuild
                 /\ Cells(r.h, r.T) = Cells(heap, Source)
                 /\ Len(LabelsOf(r.h, r.T)) = Len(labels)
                 /\ \A i \in 1..Len(labels) : i # p => LabelsOf(r.h, r.T)[i] = labels[i]
                 /\ LabelsOf(r.h, r.T)[p].kind = "str"
                 /\ Strip(LabelsOf(r.h, r.T)[p].s) = Strip(PyStr(a.new))
                 /\ (LabelsMatch(heap, Source) /\ EqualHeights(heap, Source)
                     /\ Source.style \in DOMAIN STYLES /\ \A i \in 1..Len(labels) : labels[i].kind = "str")
                       => BuildTable(r.h, r.T).err = "none"

\* C16: on a source whose columns have one height and whose labels number
\* as many as its columns, key (..., [c1, ...]) returns a new Table of the
\* source's columns c1, ... in that order under their labels, and key
\* ([r1, ...], ...) a new Table of the source's rows r1, ... in that order
\* under the source's labels; each has the source's style, centered and
\* padding, has the same shape property, and needs a rebuild.
C16_DerivedContents ==
    (EqualHeights(heap, Source) /\ LabelsMatch(heap, Source)) =>
        /\ \A cols \in ColumnLists :
              (\A i \in 1..Len(cols) : PyInRange(Source.columns, cols[i].n)) =>
                  LET r == getitem(heap, Source, KeyPair(SEll, SList(cols)))
                  IN  /\ r.kind = "table"
                      /\ Cells(r.h, r.T) =
                            [i \in 1..Len(cols) |-> heap[PyGet(Source.columns, cols[i].n)]]
                      /\ Labels(r.h, r.T) =
                            IF Source.labels = NoneRef THEN Labels(heap, Source)
                            ELSE [i \in 1..Len(cols) |-> PyGet(heap[Source.labels], cols[i].n)]
                      /\ r.T.style = Source.style /\ r.T.centered = Source.centered
                      /\ r.T.padding = Source.padding
                      /\ EqualHeights(r.h, r.T) /\ LabelsMatch(r.h, r.T)
                      /\ r.T.needs_rebuild
        /\ \A rows \in RowLists \ {<<>>} :
              (/\ Source.columns # <<>>
               /\ \A i \in 1..Len(rows) : PyInRange(heap[Source.columns[1]], rows[i].n)) =>
                  LET r == getitem(heap, Source, KeyPair(SList(rows), SEll))
                  IN  /\ r.kind = "table"
                      /\ Cells(r.h, r.T) =
                            [c \in 1..Len(Source.columns) |->
                                [i \in 1..Len(rows) |-> PyGet(heap[Source.columns[c]], rows[i].n)]]
                      /\ Labels(r.h, r.T) = Labels(heap, Source)
                      /\ r.T.style = Source.style /\ r.T.centered = Source.centered
                      /\ r.T.padding = Source.padding
                      /\ EqualHeights(r.h, r.T) /\ LabelsMatch(r.h, r.T)
                      /\ r.T.needs_rebuild

UnknownStyle(T) == T.style \notin DOMAIN STYLES

\* C17 as stated: rendering a table whose style is not a key of STYLES
\* raises (KeyError) in every state of the table, a table of no columns
\* included, and leaves the table needing a rebuild.
C17_UnknownStyleFails ==
    UnknownStyle(Source) =>
        /\ Str(heap, Source).err # "none"
        /\ Str(heap, Source).T.needs_rebuild

\* C17 as amended: rendering a table that needs a rebuild, has at least one
\* column and a style that is not a key of STYLES raises and leaves the
\* table as it was, still needing a rebuild; the error is the style
\* lookup's KeyError whenever the same table would render under a known
\* style. A table of no columns renders as the empty text whatever its
\* style, and then no longer needs a rebuild.
C17_UnknownStyleFailsWithColumns ==
    (UnknownStyle(Source) /\ Source.needs_rebuild) =>
        LET r == Str(heap, Source)
        IN  IF Source.columns = <<>>
            THEN r.err = "none" /\ r.text = <<>> /\ ~r.T.needs_rebuild
            ELSE /\ r.err # "none"
                 /\ r.T = Source
                 /\ r.T.needs_rebuild
                 /\ BuildTable(heap, [Source EXCEPT !.style = "light"]).err = "none"
                       => r.err = "KeyError"

\* a table of two columns with a style that is not in STYLES, whose render
\* raises KeyError
C17_Witness ==
    /\ UnknownStyle(Source) /\ Source.needs_rebuild
    /\ Len(Source.columns) = 2
    /\ Str(heap, Source).err = "KeyError"

\* cells as the constructor may be given them: those of CellInputs and a
\* text with a line break inside
TextInputs == CellInputs \cup {StrV(<<"a", "\n", "b">>)}

InitText == Constructed(TextInputs, CellInputs)

\* one table built from TextInputs, every call
SpecText == InitText /\ [][Next]_vars

RECURSIVE SplitLines(_)
\* text.split("\n")
SplitLines(text) ==
    IF \A i \in 1..Len(text) : text[i] # "\n" THEN <<text>>
    ELSE LET k == CHOOSE i \in 1..Len(text) : text[i] = "\n" /\ \A j \in 1..(i - 1) : text[j] # "\n"
         IN  <<SubSeq(text, 1, k - 1)>> \o SplitLines(SubSeq(text, k + 1, Len(text)))

RECURSIVE SumSeq(_)
SumSeq(s) == IF s = <<>> THEN 0 ELSE Head(s) + SumSeq(Tail(s))

\* the length of the longest cell, or label, of column c
LongestIn(h, T, c) ==
    MaxOf({Len(h[T.columns[c]][i].s) : i \in 1..Len(h[T.columns[c]])}
          \cup (IF T.labels = NoneRef THEN {} ELSE {Len(h[T.labels][c].s)}))

\* the text has the lines of a table of T's shape: top border, with labels
\* the label row and the title border, one line per row, bottom border,
\* all of one length and none after the bottom border
WellFormedLines(h, T, text) ==
    LET lines == SplitLines(text)
        g == STYLES[T.style]
        r == Len(h[T.columns[1]])
        c == Len(T.columns)
        n == r + (IF T.labels = NoneRef THEN 2 ELSE 4)
        length == SumSeq([k \in 1..c |-> LongestIn(h, T, k) + 2 * T.padding]) + c + 1
    IN  /\ Len(lines) = n
        /\ \A i \in 1..Len(lines) : Len(lines[i]) = length
        /\ Head(lines[1]) = g[3] /\ lines[1][length] = g[5]
        /\ Head(lines[n]) = g[9] /\ lines[n][length] = g[11]
        /\ T.labels # NoneRef => Head(lines[3]) = g[6] /\ lines[3][length] = g[8]
        /\ \A i \in 2..(n - 1) :
              (T.labels # NoneRef => i # 3) => Head(lines[i]) = g[1] /\ lines[i][length] = g[1]

\* a table of at least one column and one row with the shape property whose
\* layout returns
Renders(h, T) ==
    /\ T.columns # <<>>
    /\ EqualHeights(h, T) /\ LabelsMatch(h, T)
    /\ h[T.columns[1]] # <<>>
    /\ BuildTable(h, T).err = "none"

\* no cell and no label of T holds a line break
NoLineBreaks(h, T) ==
    /\ \A c \in 1..Len(T.columns) : \A i \in 1..Len(h[T.columns[c]]) :
          \A k \in 1..Len(h[T.columns[c]][i].s) : h[T.columns[c]][i].s[k] # "\n"
    /\ \A c \in 1..Len(LabelsOf(h, T)) :
          \A k \in 1..Len(LabelsOf(h, T)[c].s) : LabelsOf(h, T)[c].s[k] # "\n"

\* C18 as stated: the text laid out for a table of c >= 1 columns and
\* r >= 1 rows with the shape property is the top border, with labels the
\* label row and the title border, the r rows and the bottom border: r + 2
\* lines, r + 4 with labels, no line break at the end, every line as long
\* as the sum over the columns of (longest cell or label + 2 * padding)
\* plus c + 1.
C18_LayoutStructure ==
    Renders(heap, Source) =>
        WellFormedLines(heap, Source, BuildTable(heap, Source).text)

\* C18 as amended: the same, for the tables none of whose cells and labels
\* holds a line break.
C18_LayoutStructureNoLineBreaks ==
    (Renders(heap, Source) /\ NoLineBreaks(heap, Source)) =>
        WellFormedLines(heap, Source, BuildTable(heap, Source).text)

\* a labelled table of two columns and a row, one label longer than its
\* cell, laid out centered
C18_Witness ==
    /\ Renders(heap, Source) /\ NoLineBreaks(heap, Source)
    /\ Len(Source.columns) = 2 /\ Source.labels # NoneRef /\ Source.centered
    /\ Len(heap[Source.labels][1].s) > Len(heap[Source.columns[1]][1].s)

\* C19: an index read (a cell, a row, a column, a label lookup, a row-list
\* or column-list selection, or a key that raises) writes none of the list
\* objects that exist: the source's columns and labels are what they were,
\* as are its configuration, its stored text and its rebuild flag, which
\* __getitem__ never assigns; a table it returns is a new object that has
\* no text yet.
C19_ReadsHaveNoEffect ==
    \A key \in KeyInputs :
        LET r == getitem(heap, Source, key)
        IN  /\ Len(r.h) >= Len(heap)
            /\ SubSeq(r.h, 1, Len(heap)) = heap
            /\ Content(r.h, Source) = Content(heap, Source)
            /\ Str(r.h, Source) = Str(heap, Source)
            /\ r.kind = "table" => r.T.needs_rebuild /\ ~r.T.as_string.set

\* a rendered, labelled table of two columns and a row, of which a row
\* list selects a table, a label a column and a pair a cell
C19_Witness ==
    /\ ~Source.needs_rebuild /\ Source.as_string.set
    /\ Len(Source.columns) = 2 /\ Source.labels # NoneRef
    /\ getitem(heap, Source, KeyPair(SList(<<IntV(0)>>), SEll)).kind = "table"
    /\ getitem(heap, Source, KeyPair(SEll, SList(<<IntV(1), IntV(0)>>))).kind = "table"
    /\ getitem(heap, Source, KeyStr(StrV(<<"1", "0">>))).kind = "column"
    /\ getitem(heap, Source, KeyPair(SInt(0), SInt(1))).kind = "cell"
    /\ getitem(heap, Source, KeyInt(1)).kind = "error"

\* the key that is the bare label v: a str is looked up as a label, an int
\* is taken as a row position
BareKey(v) == IF v.kind = "str" THEN KeyStr(v) ELSE KeyInt(v.n)

DistinctLabels(h, T) ==
    /\ T.labels # NoneRef
    /\ \A i, j \in 1..Len(h[T.labels]) : h[T.labels][i] = h[T.labels][j] => i = j

\* C20: on a table with the shape property, for every row r and column c
\* it has, the keys r and (r, ...) return the same row, whose item c is the
\* cell that (r, c) returns, which is item r of the column that (..., c)
\* returns and, when the labels are distinct, of the column that the bare
\* label of column c returns.
C20_AccessPathsAgree ==
    (EqualHeights(heap, Source) /\ LabelsMatch(heap, Source)) =>
        \A p \in Positions(heap, Source) :
            LET row == getitem(heap, Source, KeyInt(p[1]))
                cell == getitem(heap, Source, KeyPair(SInt(p[1]), SInt(p[2])))
                column == getitem(heap, Source, KeyPair(SEll, SInt(p[2])))
                labelled == getitem(heap, Source, BareKey(heap[Source.labels][p[2] + 1]))
            IN  /\ row.kind = "row"
                /\ getitem(heap, Source, KeyPair(SInt(p[1]), SEll)) = row
                /\ cell.kind = "cell"
                /\ cell.items = <<CellAt(heap, Source, p)>>
                /\ row.items[p[2] + 1] = cell.items[1]
                /\ column.kind = "column"
                /\ column.items[p[1] + 1] = cell.items[1]
                /\ DistinctLabels(heap, Source) =>
                      /\ labelled.kind = "column"
                      /\ labelled.items[p[1] + 1] = cell.items[1]
====
